---- MODULE Spec2Model ----
(***************************************************************************)
(* Optimistic concurrency control of the field editor.                     *)
(*                                                                         *)
(* db.rs: the SQLite table `fields` holding the single record (id 1), its  *)
(* seeding by DbManager::initialize, the read DbManager::get_fields and    *)
(* the version-checked transaction DbManager::update_fields.               *)
(* field_editor.rs: the two server functions get_fields and update_fields  *)
(* (each builds its own DbManager, hence its own connection, and runs      *)
(* initialize first) and the FieldEditor component: the resource `fields`, *)
(* the signals edit_field1..4, version, show_error, saving, the effect     *)
(* that loads the edit buffer, and the on_save handler.                    *)
(*                                                                         *)
(* Every `.await` of the server code is one step of the model, so calls of *)
(* different callers interleave between statements.  The store is SQLite   *)
(* in its rollback-journal mode with one connection per call: a SELECT in  *)
(* a transaction takes the SHARED lock and keeps it until the transaction  *)
(* ends, an UPDATE takes the RESERVED lock (refused at once with           *)
(* SQLITE_BUSY when another connection holds it, because a connection that *)
(* already reads never waits for it), and COMMIT needs every other SHARED  *)
(* lock to be gone and waits for them.  A wait that outlasts the busy      *)
(* timeout is a store failure like any other.                              *)
(***************************************************************************)
EXTENDS Integers, Sequences, FiniteSets, TLC

\* ---------------------------------------------------------------- bounds
Clients == {"c1", "c2"}         \* browsers showing the FieldEditor component
Procs == Clients                \* the callers of the server functions

MaxVersion == 2                 \* no apply is issued with a version beyond it
MaxEdits == 1                   \* keystrokes (on:input events) in a run

Typed == {"X"}                  \* what a user can type into a field

\* ------------------------------------------------------- program constants
RecordId == 1
SeedVersion == 1
InitialVersion == 0

DefaultRow ==
    [id |-> RecordId,
     field1 |-> "Default value 1", field2 |-> "Default value 2",
     field3 |-> "Default value 3", field4 |-> "Default value 4",
     version |-> SeedVersion]

\* placeholders for Option::None / an absent value
NoRow == [id |-> 0, field1 |-> "", field2 |-> "", field3 |-> "", field4 |-> "",
          version |-> 0]
EmptyBuffer == [field1 |-> "", field2 |-> "", field3 |-> "", field4 |-> ""]

VARIABLES
    tableExists,    \* the table `fields` has been created
    rows,           \* the committed rows of the table, in insertion order
    shared,         \* connections (by caller) holding the SHARED lock
    reserved,       \* connections (by caller) holding the RESERVED lock
    call,           \* per caller: the server function call in flight
    fields,         \* per client: the value of the resource `fields`
    edit,           \* per client: edit_field1..edit_field4
    version,        \* per client: the signal `version`
    show_error,     \* per client: the signal `show_error`
    saving,         \* per client: the signal `saving`
    commits,        \* history: number of successful applies committed
    initDone,       \* history: some initialize has returned Ok
    edits           \* bound counter: keystrokes so far

store == <<tableExists, rows, shared, reserved>>
client == <<fields, edit, version, show_error, saving>>
vars == <<tableExists, rows, shared, reserved, call, fields, edit, version,
          show_error, saving, commits, initDone, edits>>

\* ------------------------------------------------------------ SQL helpers
\* WHERE id = 1
WhereId(r) == r.id = RecordId

\* WHERE id = 1 AND version = ?
WhereIdVersion_NoVersion(r, expected_version) == r.id = RecordId
WhereIdVersion(r, expected_version) ==
    r.id = RecordId /\ r.version = expected_version

\* SET field1 = ?, field2 = ?, field3 = ?, field4 = ?, version = version + 1
SetClause_Skip(r, a) ==
    [r EXCEPT !.field1 = a.field1, !.field2 = a.field2, !.field3 = a.field3,
              !.field4 = a.field4, !.version = @ + 2]
SetClause_DropField(r, a) ==
    [r EXCEPT !.field1 = a.field1, !.field2 = a.field2, !.field3 = a.field3,
              !.version = @ + 1]
SetClause(r, a) ==
    [r EXCEPT !.field1 = a.field1, !.field2 = a.field2, !.field3 = a.field3,
              !.field4 = a.field4, !.version = @ + 1]

\* the UPDATE statement on a table: the rows after it
UpdateRows(rs, a, expected_version) ==
    [i \in DOMAIN rs |->
        IF WhereIdVersion(rs[i], expected_version) THEN SetClause(rs[i], a)
        ELSE rs[i]]

\* rows_affected() of the UPDATE statement
RowsAffected(rs, expected_version) ==
    Len(SelectSeq(rs, LAMBDA r : WhereIdVersion(r, expected_version)))

\* INSERT INTO fields (id, ...) under id INTEGER PRIMARY KEY: a second row
\* with the same id is a constraint violation and the table is unchanged
Insert_Replace(rs, r) == [ok |-> TRUE, rows |-> <<r>>]
Insert_NoKey(rs, r) == [ok |-> TRUE, rows |-> Append(rs, r)]
Insert(rs, r) ==
    IF \E i \in DOMAIN rs : rs[i].id = r.id
    THEN [ok |-> FALSE, rows |-> rs]
    ELSE [ok |-> TRUE, rows |-> Append(rs, r)]

\* the committed record and its version (0 while the record is absent)
Stored == IF rows = <<>> THEN NoRow ELSE rows[1]
Committed == Stored.version

\* ------------------------------------------------------------------ calls
NoCall ==
    [kind |-> "none", pc |-> "none", args |-> EmptyBuffer,
     expected_version |-> 0, txrows |-> <<>>, affected |-> 0,
     result |-> "none", data |-> NoRow, at |-> 0, start |-> 0,
     wrote |-> FALSE]

\* a server function has been entered; `start` records the committed version
\* at that moment and `wrote` whether the call has committed an update
NewCall(kind, args, expected_version) ==
    [NoCall EXCEPT !.kind = kind, !.pc = "create", !.args = args,
                   !.expected_version = expected_version, !.start = Committed]

\* the server function has returned `res`: its arguments and locals are gone
Done(cl, res) ==
    [NoCall EXCEPT !.kind = cl.kind, !.pc = "done", !.result = res,
                   !.expected_version = cl.expected_version,
                   !.start = cl.start, !.wrote = cl.wrote]

Errors == {"io", "busy", "constraint", "notfound"}
IsErr(res) == res \in Errors

\* ---------------------------------------------------------- client views
\* the four field values of a record, as the effect copies them
BufferOf(data) ==
    [field1 |-> data.field1, field2 |-> data.field2,
     field3 |-> data.field3, field4 |-> data.field4]

NoValue == [st |-> "none", data |-> NoRow, at |-> 0]

\* the resource is pending (the Suspense shows its fallback)
Loading(c) == call[c].kind = "get"

\* the form of the Ok(data) branch is on the page
FormShown_AnyResult(c) == ~Loading(c)
FormShown(c) == fields[c].st = "ok" /\ ~Loading(c)

Init ==
    /\ tableExists = FALSE
    /\ rows = <<>>
    /\ shared = {}
    /\ reserved = {}
    /\ call = [p \in Procs |->
                 IF p \in Clients THEN [NoCall EXCEPT !.kind = "get",
                                                      !.pc = "create"]
                 ELSE NoCall]
    /\ fields = [c \in Clients |-> NoValue]
    /\ edit = [c \in Clients |-> EmptyBuffer]
    /\ version = [c \in Clients |-> InitialVersion]
    /\ show_error = [c \in Clients |-> FALSE]
    /\ saving = [c \in Clients |-> FALSE]
    /\ commits = 0
    /\ initDone = FALSE
    /\ edits = 0

\* ------------------------------------------------- DbManager::initialize
\* where a call continues once initialize has returned Ok
AfterInit(kind) == IF kind = "get" THEN "select" ELSE "check"

\* SqlitePool::connect, then CREATE TABLE IF NOT EXISTS fields
CreateTable(p) ==
    /\ call[p].pc = "create"
    /\ tableExists' = TRUE
    /\ call' = [call EXCEPT ![p].pc = "count"]
    /\ UNCHANGED <<rows, shared, reserved, client, commits, initDone, edits>>

\* SELECT COUNT(*) FROM fields, and the test count == 0
CountRows(p) ==
    /\ call[p].pc = "count"
    /\ LET count == Len(rows) IN
         /\ call' = [call EXCEPT ![p].pc = IF count = 0 THEN "insert"
                                           ELSE AfterInit(call[p].kind)]
         /\ initDone' = (initDone \/ count # 0)
    /\ UNCHANGED <<store, client, commits, edits>>

\* INSERT INTO fields ... VALUES (1, ?, ?, ?, ?, 1) of the default record
InsertDefault(p) ==
    /\ call[p].pc = "insert"
    /\ LET ins == Insert(rows, DefaultRow) IN
         /\ rows' = ins.rows
         /\ IF ins.ok
            THEN /\ call' = [call EXCEPT ![p].pc = AfterInit(call[p].kind)]
                 /\ initDone' = TRUE
            ELSE /\ call' = [call EXCEPT ![p] = Done(@, "constraint")]
                 /\ UNCHANGED initDone
    /\ UNCHANGED <<tableExists, shared, reserved, client, commits, edits>>

\* ------------------------------------------------- DbManager::get_fields
\* what the connection of p reads: the committed rows; the rows an open
\* transaction of another connection has written stay private to it
ReadRows_Dirty(p) ==
    IF \E q \in Procs : q # p /\ call[q].pc = "commit"
    THEN call[CHOOSE q \in Procs : q # p /\ call[q].pc = "commit"].txrows
    ELSE rows
ReadRows(p) == rows

\* SELECT ... FROM fields WHERE id = 1, fetch_one
SelectFields(p) ==
    /\ call[p].pc = "select"
    /\ LET found == SelectSeq(ReadRows(p), WhereId) IN
         call' = [call EXCEPT ![p] =
                    IF found = <<>> THEN Done(@, "notfound")
                    ELSE [Done(@, "ok") EXCEPT !.data = found[1],
                                               !.at = commits]]
    /\ UNCHANGED <<store, client, commits, initDone, edits>>

\* ---------------------------------------------- DbManager::update_fields
\* pool.begin() (BEGIN takes no lock), then
\* SELECT version FROM fields WHERE id = 1 AND version = ?, fetch_optional,
\* and the test current_version.is_none()
CheckVersion(p) ==
    /\ call[p].pc = "check"
    /\ shared' = shared \cup {p}
    /\ LET current_version ==
             SelectSeq(rows, LAMBDA r :
                               WhereIdVersion(r, call[p].expected_version))
       IN  call' = [call EXCEPT ![p].pc = IF current_version = <<>>
                                          THEN "rollback" ELSE "update"]
    /\ UNCHANGED <<tableExists, rows, reserved, client, commits, initDone,
                   edits>>

\* tx.rollback() and return Ok(false)
Rollback(p) ==
    /\ call[p].pc = "rollback"
    /\ shared' = shared \ {p}
    /\ call' = [call EXCEPT ![p] = Done(@, "false")]
    /\ UNCHANGED <<tableExists, rows, reserved, client, commits, initDone,
                   edits>>

\* UPDATE fields SET ... WHERE id = 1 AND version = ? inside the transaction.
\* Another connection holding RESERVED makes it fail with SQLITE_BUSY; the
\* `?` returns the error and dropping tx rolls the transaction back.
Update(p) ==
    /\ call[p].pc = "update"
    /\ IF reserved \ {p} # {}
       THEN /\ shared' = shared \ {p}
            /\ call' = [call EXCEPT ![p] = Done(@, "busy")]
            /\ UNCHANGED reserved
       ELSE /\ reserved' = reserved \cup {p}
            /\ call' = [call EXCEPT
                  ![p].pc = "commit",
                  ![p].txrows = UpdateRows(rows, call[p].args,
                                           call[p].expected_version),
                  ![p].affected = RowsAffected(rows,
                                               call[p].expected_version)]
            /\ UNCHANGED shared
    /\ UNCHANGED <<tableExists, rows, client, commits, initDone, edits>>

\* tx.commit() once no other connection reads, and
\* Ok(result.rows_affected() > 0)
Commit(p) ==
    /\ call[p].pc = "commit"
    /\ shared \ {p} = {}
    /\ rows' = call[p].txrows
    /\ shared' = shared \ {p}
    /\ reserved' = reserved \ {p}
    /\ call' = [call EXCEPT ![p] =
                  [Done(@, IF call[p].affected > 0 THEN "true" ELSE "false")
                     EXCEPT !.wrote = call[p].affected > 0]]
    /\ commits' = IF call[p].affected > 0 THEN commits + 1 ELSE commits
    /\ UNCHANGED <<tableExists, client, initDone, edits>>

\* a failure that leaves the written rows behind instead of rolling back
StoreFailure_NoRollback(p) ==
    /\ call[p].pc \notin {"none", "done"}
    /\ rows' = IF call[p].pc = "commit" THEN call[p].txrows ELSE rows
    /\ shared' = shared \ {p}
    /\ reserved' = reserved \ {p}
    /\ call' = [call EXCEPT ![p] = Done(@, "io")]
    /\ UNCHANGED <<tableExists, client, commits, initDone, edits>>

\* an `.await?` of the server function returns a store error (the store is
\* unreachable, or a wait for a lock outlasts the busy timeout): the call
\* ends with Err and an open transaction is dropped
StoreFailure(p) ==
    /\ call[p].pc \notin {"none", "done"}
    /\ shared' = shared \ {p}
    /\ reserved' = reserved \ {p}
    /\ call' = [call EXCEPT ![p] = Done(@, "io")]
    /\ UNCHANGED <<tableExists, rows, client, commits, initDone, edits>>

\* the response of a finished call is lost on the way: the caller gets Err
TransportFailure(p) ==
    /\ call[p].pc = "done"
    /\ ~IsErr(call[p].result)
    /\ call' = [call EXCEPT ![p] = Done(@, "io")]
    /\ UNCHANGED <<store, client, commits, initDone, edits>>

\* ------------------------------------------------------------ FieldEditor
\* the signals of client c after the effect has run on Ok(data): the four
\* edit fields and the version are set from data, show_error is not touched
Effect_ClearsNotice(c, data) ==
    [edit |-> BufferOf(data), version |-> data.version, show_error |-> FALSE]
Effect_KeepsVersion(c, data) ==
    [edit |-> BufferOf(data), version |-> version[c],
     show_error |-> show_error[c]]
Effect(c, data) ==
    [edit |-> BufferOf(data), version |-> data.version,
     show_error |-> show_error[c]]

\* the resource delivers the result of get_fields; the effect copies an
\* Ok(data) into the edit buffer and the version
FetchDelivered(c) ==
    /\ call[c].kind = "get"
    /\ call[c].pc = "done"
    /\ LET ok == call[c].result = "ok"
           after == Effect(c, call[c].data) IN
         /\ fields' = [fields EXCEPT ![c] =
                         [st |-> IF ok THEN "ok" ELSE "err",
                          data |-> call[c].data, at |-> call[c].at]]
         /\ edit' = [edit EXCEPT ![c] = IF ok THEN after.edit ELSE @]
         /\ version' = [version EXCEPT ![c] =
                          IF ok THEN after.version ELSE @]
         /\ show_error' = [show_error EXCEPT ![c] =
                             IF ok THEN after.show_error ELSE @]
    /\ call' = [call EXCEPT ![c] = NoCall]
    /\ UNCHANGED <<store, saving, commits, initDone, edits>>

\* on:input of one of the four inputs
SetField(b, i, v) ==
    CASE i = 1 -> [b EXCEPT !.field1 = v]
      [] i = 2 -> [b EXCEPT !.field2 = v]
      [] i = 3 -> [b EXCEPT !.field3 = v]
      [] i = 4 -> [b EXCEPT !.field4 = v]

Input(c, i, v) ==
    /\ FormShown(c)
    /\ edits < MaxEdits
    /\ SetField(edit[c], i, v) # edit[c]
    /\ edits' = edits + 1
    /\ edit' = [edit EXCEPT ![c] = SetField(@, i, v)]
    /\ UNCHANGED <<store, call, fields, version, show_error, saving, commits,
                   initDone>>

\* the save button can be clicked: it is on the page and not disabled
SaveEnabled_NotDisabled(c) == FormShown(c)
SaveEnabled(c) == FormShown(c) /\ ~saving[c]

\* the arguments on_save passes to update_fields
ApplyArgs_Loaded(c) ==
    [args |-> BufferOf(fields[c].data), expected_version |-> version[c]]
ApplyArgs(c) == [args |-> edit[c], expected_version |-> version[c]]

\* on_save up to the call of update_fields
on_save(c) ==
    /\ SaveEnabled(c)
    /\ version[c] < MaxVersion
    /\ saving' = [saving EXCEPT ![c] = TRUE]
    /\ show_error' = [show_error EXCEPT ![c] = FALSE]
    /\ call' = [call EXCEPT ![c] =
                  NewCall("update", ApplyArgs(c).args,
                          ApplyArgs(c).expected_version)]
    /\ UNCHANGED <<store, fields, edit, version, commits, initDone, edits>>

\* what source.set(()) does: the resource runs get_fields again
Refetch == NewCall("get", EmptyBuffer, 0)

\* the three arms of `match result` in on_save
OnResult_NoRefetchOnConflict(res) ==
    [show_error |-> res # "true", refetch |-> res = "true"]
OnResult_NoRefetchOnSuccess(res) ==
    [show_error |-> res # "true", refetch |-> res = "false"]
OnResult_RefetchOnError(res) ==
    [show_error |-> res # "true", refetch |-> TRUE]
OnResult(res) ==
    CASE res = "true"  -> [show_error |-> FALSE, refetch |-> TRUE]
      [] res = "false" -> [show_error |-> TRUE, refetch |-> TRUE]
      [] OTHER         -> [show_error |-> TRUE, refetch |-> FALSE]

\* on_save after the call of update_fields has returned
SaveDelivered(c) ==
    /\ call[c].kind = "update"
    /\ call[c].pc = "done"
    /\ saving' = [saving EXCEPT ![c] = FALSE]
    /\ LET arm == OnResult(call[c].result) IN
         /\ show_error' = [show_error EXCEPT ![c] = @ \/ arm.show_error]
         /\ call' = [call EXCEPT ![c] = IF arm.refetch THEN Refetch
                                        ELSE NoCall]
    /\ UNCHANGED <<store, fields, edit, version, commits, initDone, edits>>

Next ==
    \/ \E p \in Procs : CreateTable(p)
    \/ \E p \in Procs : CountRows(p)
    \/ \E p \in Procs : InsertDefault(p)
    \/ \E p \in Procs : SelectFields(p)
    \/ \E p \in Procs : CheckVersion(p)
    \/ \E p \in Procs : Rollback(p)
    \/ \E p \in Procs : Update(p)
    \/ \E p \in Procs : Commit(p)
    \/ \E p \in Procs : StoreFailure(p)
    \/ \E p \in Procs : TransportFailure(p)
    \/ \E c \in Clients : FetchDelivered(c)
    \/ \E c \in Clients, i \in 1..4, v \in Typed : Input(c, i, v)
    \/ \E c \in Clients : on_save(c)
    \/ \E c \in Clients : SaveDelivered(c)

Spec == Init /\ [][Next]_vars

\* ===================================================================
\* Steps and results the properties speak about
\* ===================================================================
\* the call of p takes a step
Steps(p) == call'[p] # call[p]

\* the result of p's call is handed to the caller
Delivered(p) == call[p].pc = "done" /\ call'[p].pc # "done"

\* the transaction of p commits and its apply returns true
CommitsTrue(p) ==
    call[p].pc = "commit" /\ call'[p].pc = "done" /\ call'[p].result = "true"

\* the applies in flight that presented v while v was the committed version
Racing(v) ==
    {p \in Procs : /\ call[p].kind = "update"
                   /\ call[p].expected_version = v
                   /\ call[p].start = v}

\* the records fetches have returned: results not yet delivered, and the
\* resource values of the clients
FetchResults ==
    {[data |-> call[p].data, at |-> call[p].at] :
        p \in {q \in Procs : call[q].kind = "get" /\ call[q].result = "ok"}}
    \cup {[data |-> fields[c].data, at |-> fields[c].at] :
            c \in {d \in Clients : fields[d].st = "ok"}}

\* C1: of the concurrent applies that present the same expected version, the
\* committed one when they started, exactly one returns true and every other
\* one returns false, none an error (calls hit by a store or transport
\* failure aside).
C1_ExactlyOneWinner ==
    \A v \in 1..MaxVersion :
        LET S == Racing(v) IN
        (/\ Cardinality(S) >= 2
         /\ \A p \in S : call[p].pc = "done" /\ call[p].result # "io")
        => /\ Cardinality({p \in S : call[p].result = "true"}) = 1
           /\ \A p \in S : call[p].result \in {"true", "false"}

\* C2: no lost update. When the apply of a client's save commits and returns
\* true, the committed record is still the one the client's edit buffer and
\* version were loaded from, and no apply has been committed since that
\* record was read.
C2_NoLostUpdate ==
    [][\A c \in Clients :
          CommitsTrue(c) => /\ Stored = fields[c].data
                            /\ commits = fields[c].at
                            /\ call[c].expected_version = Committed]_vars

\* a save succeeded while the other client still holds the record it replaced
C2_Witness ==
    \E c \in Clients, d \in Clients :
        /\ c # d
        /\ call[c].kind = "update" /\ call[c].result = "true"
        /\ fields[d].st = "ok" /\ fields[d].data.version < Committed

\* C3: an apply that returns true leaves exactly one record, whose version is
\* the previously committed version plus 1 and whose four fields are the four
\* submitted values; and a fetch that reads with no successful apply since
\* returns the stored fields and version.
C3_SuccessfulApply ==
    [][/\ \A p \in Procs :
            CommitsTrue(p) =>
                rows' = <<[id |-> RecordId,
                           field1 |-> call[p].args.field1,
                           field2 |-> call[p].args.field2,
                           field3 |-> call[p].args.field3,
                           field4 |-> call[p].args.field4,
                           version |-> Committed + 1]>>
       /\ \A r \in FetchResults' : r.at = commits' => r.data = Stored']_vars

\* a typed value was saved and a fetch has returned it with version 2
C3_Witness ==
    \E r \in FetchResults :
        /\ r.at = commits /\ r.data = Stored
        /\ r.data.version = SeedVersion + 1
        /\ BufferOf(r.data) # BufferOf(DefaultRow)

\* C4: the stored version starts at 1 and every step leaves it unchanged or
\* raises it by exactly 1; it is raised exactly in the steps where an apply
\* returns true, and no initialization puts it back to 1.
C4_VersionMonotone ==
    [][/\ rows = <<>> =>
            \/ rows' = <<>>
            \/ Len(rows') = 1 /\ rows'[1].version = 1
       /\ rows # <<>> =>
            /\ rows' # <<>>
            /\ \/ Committed' = Committed
               \/ /\ Committed' = Committed + 1
                  /\ \E p \in Procs : CommitsTrue(p)
       /\ \A p \in Procs : CommitsTrue(p) => Committed' = Committed + 1]_vars

\* an initialization has run its count after the version went beyond 1
C4_Witness ==
    /\ Committed = SeedVersion + 1
    /\ \E p \in Procs : call[p].pc \in {"select", "check"}

\* C5: an apply whose expected version differs from the committed version at
\* its check goes to the rollback and returns false, never true and never an
\* error of its own (a store or transport failure aside), leaving the
\* record alone.
C5_StaleReturnsFalse ==
    [][\A p \in Procs :
          /\ (/\ call[p].pc = "check"
              /\ call[p].expected_version # Committed
              /\ Steps(p)
              /\ call'[p].result # "io") => call'[p].pc = "rollback"
          /\ (call[p].pc = "rollback" /\ Steps(p)) =>
                /\ call'[p].pc = "done"
                /\ call'[p].result \in {"false", "io"}
                /\ rows' = rows
          /\ (call'[p].pc = "rollback" /\ Steps(p)) =>
                call[p].expected_version # Committed]_vars

\* an apply with a stale version has returned false
C5_Witness ==
    \E p \in Procs :
        /\ call[p].kind = "update" /\ call[p].pc = "done"
        /\ call[p].result = "false"
        /\ call[p].expected_version < Committed

\* C6: fetch is idempotent. Two fetches that read with no successful apply
\* committed between them return the same four fields and the same version,
\* whatever initializations ran around them.
C6_FetchIdempotent ==
    \A a \in FetchResults, b \in FetchResults : a.at = b.at => a.data = b.data

\* two clients hold the result of fetches made after the same apply
C6_Witness ==
    \E c \in Clients, d \in Clients :
        /\ c # d
        /\ fields[c].st = "ok" /\ fields[d].st = "ok"
        /\ fields[c].at = 1 /\ fields[d].at = 1

\* C7: a step of initialize on a store that holds the record leaves the rows
\* as they are: fields and version unchanged, no second record.
C7_InitializeKeepsRecord ==
    [][\A p \in Procs :
          (/\ call[p].pc \in {"create", "count", "insert"}
           /\ Steps(p)
           /\ rows # <<>>) => rows' = rows]_vars

\* the INSERT of an initialize was refused after an apply changed the record
C7_Witness ==
    /\ Committed = SeedVersion + 1
    /\ \E p \in Procs : call[p].result = "constraint"

\* C8: the table never holds two records, and once an initialize has
\* returned Ok it holds exactly the record with id 1.
C8_ExactlyOneRecord ==
    /\ Len(rows) <= 1
    /\ initDone => Len(rows) = 1 /\ rows[1].id = RecordId

\* two initializations raced on the empty store and one INSERT was refused
C8_Witness ==
    /\ initDone
    /\ \E p \in Procs : call[p].result = "constraint"

\* C9: when a client's apply returns false the client sets the notice and
\* refetches; when that refetch is delivered and the form is back, the edit
\* buffer and the version are those of the fetched record, which is newer
\* than the rejected version and is the stored record if no apply was
\* committed since it was read.
C9_ConflictRefetch ==
    [][\A c \in Clients :
          /\ (/\ call[c].kind = "update" /\ call[c].pc = "done"
              /\ call[c].result = "false"
              /\ Delivered(c)) =>
                /\ show_error'[c]
                /\ ~saving'[c]
                /\ call'[c].kind = "get" /\ call'[c].pc = "create"
          /\ (/\ call[c].kind = "get" /\ show_error[c]
              /\ call'[c].kind = "none"
              /\ fields'[c].st = "ok") =>
                /\ edit'[c] = BufferOf(call[c].data)
                /\ version'[c] = call[c].data.version
                /\ version'[c] > version[c]
                /\ call[c].at = commits => /\ edit'[c] = BufferOf(Stored)
                                           /\ version'[c] = Committed]_vars

\* after a conflict the form is back with the stored record, the notice set
C9_Witness ==
    \E c \in Clients :
        /\ FormShown(c) /\ show_error[c] /\ ~saving[c]
        /\ version[c] = SeedVersion + 1
        /\ version[c] = Committed /\ edit[c] = BufferOf(Stored)

\* C10: when a client's apply returns an error the form stays, the edit
\* buffer and the version are untouched, the notice is set, saving is over
\* and no fetch is started.
C10_ErrorKeepsBuffer ==
    [][\A c \in Clients :
          (/\ call[c].kind = "update" /\ call[c].pc = "done"
           /\ IsErr(call[c].result)
           /\ Delivered(c)) =>
                /\ edit'[c] = edit[c]
                /\ version'[c] = version[c]
                /\ fields'[c] = fields[c]
                /\ show_error'[c]
                /\ ~saving'[c]
                /\ call'[c] = NoCall
                /\ fields'[c].st = "ok"]_vars

\* an error came back: the typed value is still in the buffer, notice set
C10_Witness ==
    \E c \in Clients :
        /\ FormShown(c) /\ show_error[c] /\ ~saving[c]
        /\ version[c] = SeedVersion
        /\ edit[c] # BufferOf(fields[c].data)

\* C11: when a client's apply returns true the client refetches without a
\* notice; when that refetch is delivered Ok the edit buffer and the version
\* are those of the fetched record, whose version is at least the one the
\* apply produced (the client's old version plus 1) and which is the stored
\* record if no apply was committed since it was read.
C11_SuccessRefetch ==
    [][\A c \in Clients :
          /\ (/\ call[c].kind = "update" /\ call[c].pc = "done"
              /\ call[c].result = "true"
              /\ Delivered(c)) =>
                /\ ~saving'[c]
                /\ ~show_error'[c]
                /\ call'[c].kind = "get" /\ call'[c].pc = "create"
                /\ edit'[c] = edit[c] /\ version'[c] = version[c]
          /\ (/\ call[c].kind = "get" /\ ~show_error[c]
              /\ fields[c].st = "ok"
              /\ call'[c].kind = "none"
              /\ fields'[c].st = "ok") =>
                /\ edit'[c] = BufferOf(call[c].data)
                /\ version'[c] = call[c].data.version
                /\ version'[c] >= version[c] + 1
                /\ call[c].at = commits => /\ edit'[c] = BufferOf(Stored)
                                           /\ version'[c] = Committed]_vars

\* the only client that ever loaded has saved and holds the new version
C11_Witness ==
    \E c \in Clients, d \in Clients :
        /\ c # d /\ fields[d].st = "none"
        /\ FormShown(c) /\ ~show_error[c] /\ ~saving[c]
        /\ version[c] = SeedVersion + 1
        /\ version[c] = Committed /\ edit[c] = BufferOf(Stored)

\* a step in which client c sends an apply
IssuesApply(c) ==
    call'[c].kind = "update" /\ call'[c].pc = "create" /\ call'[c] # call[c]

\* C12: a client has an apply outstanding exactly while its saving signal,
\* which disables the save button, is set; an apply is sent only when none
\* is outstanding and ends saving only when its result is delivered.
C12_OneSaveInFlight ==
    [][\A c \in Clients :
          /\ saving[c] <=> call[c].kind = "update"
          /\ IssuesApply(c) =>
                /\ ~saving[c] /\ call[c].kind = "none"
                /\ saving'[c]
          /\ (saving[c] /\ ~saving'[c]) =>
                call[c].kind = "update" /\ call[c].pc = "done"]_vars

\* an apply is outstanding with the form on the page and the button disabled
C12_Witness ==
    \E c \in Clients :
        /\ FormShown(c) /\ saving[c]
        /\ call[c].kind = "update" /\ call[c].pc = "commit"

\* C13: a fetch returns the committed row as a whole, read in one step in
\* which the store does not change, and the client's resource holds the
\* response as delivered; the stored row itself is only ever the seed
\* (defaults, version 1) or the four fields submitted by one apply that
\* returned true together with the version that apply produced.
C13_FetchReadsCommitted ==
    [][/\ \A p \in Procs :
            (call'[p].result = "ok" /\ call[p].result # "ok") =>
                /\ call'[p].data = Stored
                /\ call'[p].at = commits
                /\ rows' = rows
                /\ \A q \in Procs : call[q].pc = "commit" =>
                                        call[q].txrows = call'[q].txrows
       /\ \A c \in Clients :
            (fields'[c] # fields[c] /\ fields'[c].st = "ok") =>
                /\ call[c].kind = "get" /\ call[c].result = "ok"
                /\ fields'[c].data = call[c].data
                /\ fields'[c].at = call[c].at
       /\ rows' # rows =>
            \/ rows = <<>> /\ rows' = <<DefaultRow>>
            \/ \E p \in Procs :
                  /\ CommitsTrue(p)
                  /\ rows' = <<[id |-> RecordId,
                                field1 |-> call[p].args.field1,
                                field2 |-> call[p].args.field2,
                                field3 |-> call[p].args.field3,
                                field4 |-> call[p].args.field4,
                                version |-> Committed + 1]>>]_vars

\* a fetch has returned the committed record while another connection holds
\* an uncommitted update of it
C13_Witness ==
    \E p \in Procs, q \in Procs :
        /\ call[p].kind = "get" /\ call[p].result = "ok"
        /\ call[q].pc = "commit" /\ call[q].txrows # rows
        /\ call[p].data = Stored /\ call[p].at = commits

\* C14 as claimed: an apply that returns false or an error has not changed
\* the stored record.
C14_FailedApplyUnchanged ==
    \A p \in Procs :
        (/\ call[p].kind = "update" /\ call[p].pc = "done"
         /\ call[p].result # "true") => ~call[p].wrote

\* C14, amended: when DbManager::update_fields returns false or an error the
\* rows are as before and nothing was written, and the rows never change in
\* part; the one apply that reports an error although it updated the record
\* is an apply that committed, returned true, and lost its response.
C14_StoreFailureKeepsRecord ==
    [][\A p \in Procs :
          /\ (/\ call[p].kind = "update"
              /\ call[p].pc # "done" /\ call'[p].pc = "done"
              /\ call'[p].result # "true") =>
                /\ rows' = rows
                /\ ~call'[p].wrote
          /\ (call'[p].wrote /\ ~call[p].wrote) => CommitsTrue(p)
          /\ (call'[p].wrote /\ call'[p].result # "true") =>
                /\ call[p].pc = "done" /\ call[p].wrote
                /\ call'[p].result = "io"
          /\ (call[p].pc = "done" /\ call'[p].pc = "done"
              /\ call'[p] # call[p]) => rows' = rows]_vars

\* one apply came back false with the record untouched, and one committed
\* apply came back as an error because its response was lost
C14_Witness ==
    \E p \in Procs, q \in Procs :
        /\ call[p].kind = "update" /\ call[p].result = "false"
        /\ ~call[p].wrote
        /\ call[q].kind = "update" /\ call[q].result = "io" /\ call[q].wrote

\* C15: the apply a save sends carries the edit buffer and the version
\* signal as they are at the click, and that version is the one of the
\* resource value, the most recently delivered fetch, which is a success.
C15_SaveSnapshot ==
    [][\A c \in Clients :
          IssuesApply(c) =>
              /\ call'[c].args = edit[c]
              /\ call'[c].expected_version = version[c]
              /\ fields[c].st = "ok"
              /\ version[c] = fields[c].data.version
              /\ edit'[c] = edit[c] /\ version'[c] = version[c]]_vars

\* an apply is on its way with a buffer that differs from the loaded record
C15_Witness ==
    \E c \in Clients :
        /\ call[c].kind = "update" /\ call[c].pc = "create"
        /\ call[c].args = edit[c]
        /\ call[c].args # BufferOf(fields[c].data)
        /\ call[c].expected_version = fields[c].data.version

\* C17: the notice, once set, stays set through every step (the refetch, its
\* delivery, later input) except the step in which the client starts its
\* next save; and the delivery of a false sets it.
C17_NoticePersists ==
    [][\A c \in Clients :
          /\ (show_error[c] /\ ~show_error'[c]) =>
                /\ IssuesApply(c)
                /\ ~saving[c] /\ saving'[c]
          /\ (/\ call[c].kind = "update" /\ call[c].result = "false"
              /\ Delivered(c)) => show_error'[c]]_vars

\* after a conflict the refetch was delivered and the user typed again, with
\* the notice still set
C17_Witness ==
    \E c \in Clients :
        /\ FormShown(c) /\ show_error[c] /\ ~saving[c]
        /\ version[c] = SeedVersion + 1
        /\ edit[c] # BufferOf(fields[c].data)

\* -------------------------------------------------------------------
\* One client, nothing fails: only c1's requests ever reach the server (the
\* other browser's first request stays pending for good), and no store or
\* transport failure occurs.
\* -------------------------------------------------------------------
Solo == "c1"

\* the statement after the version check, whichever way the check went
Transact(p) == IF call[p].pc = "rollback" THEN Rollback(p) ELSE Update(p)

NextSolo ==
    \/ CreateTable(Solo)
    \/ CountRows(Solo)
    \/ InsertDefault(Solo)
    \/ SelectFields(Solo)
    \/ CheckVersion(Solo)
    \/ Transact(Solo)
    \/ Commit(Solo)
    \/ FetchDelivered(Solo)
    \/ \E i \in 1..4, v \in Typed : Input(Solo, i, v)
    \/ on_save(Solo)
    \/ SaveDelivered(Solo)

SpecSolo == Init /\ [][NextSolo]_vars

VersionLoaded(c) ==
    /\ version[c] \in 0..Committed
    /\ fields[c].st = "none" =>
          version[c] = InitialVersion /\ edit[c] = EmptyBuffer
    /\ version[c] = InitialVersion => fields[c].st # "ok"
    /\ fields[c].st = "ok" =>
          /\ version[c] = fields[c].data.version
          /\ version[c] >= SeedVersion
          /\ fields[c].data.id = RecordId
          /\ fields[c].data.version = SeedVersion + fields[c].at
          /\ fields[c].at = commits => fields[c].data = Stored

\* C19: a client's version is its initial 0 or a version the store has
\* committed, never beyond the committed one; it changes only when a fetch
\* is delivered Ok, together with the edit buffer, both from that response,
\* and it is the version of the resource value while that is Ok.
C19_ClientVersionCommitted ==
    [][\A c \in Clients :
          /\ VersionLoaded(c)'
          /\ version'[c] # version[c] =>
                /\ call[c].kind = "get" /\ call[c].result = "ok"
                /\ call[c].data.version = SeedVersion + call[c].at
                /\ version'[c] = call[c].data.version
                /\ edit'[c] = BufferOf(call[c].data)
                /\ fields'[c].data = call[c].data]_vars

\* a client holds a version the store has since moved past
C19_Witness ==
    \E c \in Clients :
        /\ fields[c].st = "ok"
        /\ version[c] = fields[c].data.version
        /\ version[c] >= SeedVersion /\ version[c] < Committed

\* C20: an apply is sent only while the resource value is a delivered Ok, so
\* never with the initial version 0; a fetch delivered as an error leaves
\* the edit buffer and the version as they were, and from then on the
\* client sends nothing.
C20_SaveNeedsLoadedRecord ==
    [][\A c \in Clients :
          /\ IssuesApply(c) =>
                /\ fields[c].st = "ok"
                /\ call'[c].expected_version >= SeedVersion
          /\ call'[c].kind = "update" =>
                call'[c].expected_version # InitialVersion
          /\ (fields'[c].st = "err" /\ fields[c].st # "err") =>
                /\ call[c].kind = "get" /\ IsErr(call[c].result)
                /\ edit'[c] = edit[c] /\ version'[c] = version[c]
                /\ call'[c] = NoCall
          /\ fields[c].st = "err" =>
                /\ call'[c] = NoCall /\ fields'[c] = fields[c]
                /\ edit'[c] = edit[c] /\ version'[c] = version[c]
          /\ fields[c].st = "none" => call[c].kind = "get"]_vars

\* a refetch was delivered as an error: the form is gone, the buffer and the
\* version loaded before are still there
C20_Witness ==
    \E c \in Clients :
        /\ fields[c].st = "err" /\ call[c] = NoCall
        /\ version[c] >= SeedVersion
        /\ edit[c] # EmptyBuffer

====
